---- MODULE Spec2Model ----
(***************************************************************************)
(* Model of the code-generation dispatch subsystem: server/aiRoutes.ts     *)
(* (generateCodeSchema, modelEndpoints, generateCode, generateCodeHandler).*)
(*                                                                         *)
(* Strings are sequences of indivisible symbols; the empty string is <<>>. *)
(* A JSON / JavaScript value is a record [t, s, text]: t is the typeof-like*)
(* tag, s the string content (decimal text for a number), text the value   *)
(* of the property "text" when the value is an object.                     *)
(***************************************************************************)
EXTENDS Integers, Sequences, FiniteSets, TLC

VARIABLES req, pc, job, timer, aborted, call, elapsed, response, gen, res,
          faults, env, boundary, invocations,
          rq, controllers, timers,
          store, initc,
          users, subc

\* The state of one generate-code request.
genVars ==
  <<req, pc, job, timer, aborted, call, elapsed, response, gen, res,
    faults, env, boundary, invocations>>

\* The state of concurrently running generate-code requests.
concVars == <<rq, controllers, timers>>

\* The tables behind POST /api/init-models and POST /api/init-plans and the
\* calls of those routes.
initVars == <<store, initc>>

\* The isSubscribed flag of each stored user and the calls of
\* POST /api/subscribe.
subVars == <<users, subc>>

vars == <<genVars, concVars, initVars, subVars>>

(***************************************************************************)
(* Bounds of the model.                                                    *)
(***************************************************************************)
MaxTicks == 4

NumRequests == 2

NumCallers == 2

NumSubscribers == 2

TickMs == 10000

(***************************************************************************)
(* JavaScript values.                                                      *)
(***************************************************************************)
UndefLeaf == [t |-> "undefined", s |-> <<>>]

Leaf(t, s) == [t |-> t, s |-> s]

Undefined == [t |-> "undefined", s |-> <<>>, text |-> UndefLeaf]

Null == [t |-> "null", s |-> <<>>, text |-> UndefLeaf]

StrV(s) == [t |-> "string", s |-> s, text |-> UndefLeaf]

NumV(n) == [t |-> "number", s |-> <<ToString(n)>>, text |-> UndefLeaf]

BoolV(b) ==
  [t |-> "boolean", s |-> IF b THEN <<"true">> ELSE <<"false">>, text |-> UndefLeaf]

ArrV == [t |-> "array", s |-> <<>>, text |-> UndefLeaf]

ObjV(textLeaf) == [t |-> "object", s |-> <<>>, text |-> textLeaf]

Lift(l) == [t |-> l.t, s |-> l.s, text |-> UndefLeaf]

\* JavaScript truthiness (ToBoolean).
Truthy(v) ==
  ~ \/ v.t \in {"undefined", "null"}
    \/ v.t = "string" /\ v.s = <<>>
    \/ v.t = "number" /\ v.s = <<"0">>
    \/ v.t = "boolean" /\ v.s = <<"false">>

\* JavaScript  a || b.
OrElse(a, b) == IF Truthy(a) THEN a ELSE b

\* Characters removed by String.prototype.trim.
WhiteSpace == {" ", "\n", "\t"}

RECURSIVE TrimStart(_)
TrimStart(s) ==
  IF s # <<>> /\ Head(s) \in WhiteSpace THEN TrimStart(Tail(s)) ELSE s

RECURSIVE TrimEnd(_)
TrimEnd(s) ==
  IF s # <<>> /\ s[Len(s)] \in WhiteSpace
    THEN TrimEnd(SubSeq(s, 1, Len(s) - 1))
    ELSE s

Trim(s) == TrimEnd(TrimStart(s))

\* sub occurs in s as a contiguous run of symbols.
Contains(s, sub) ==
  \E i \in 0..(Len(s) - Len(sub)) : SubSeq(s, i + 1, i + Len(sub)) = sub

RECURSIVE Concat(_)
Concat(ss) == IF ss = <<>> THEN <<>> ELSE Head(ss) \o Concat(Tail(ss))

(***************************************************************************)
(* Request validation: generateCodeSchema (zod).                           *)
(***************************************************************************)
Issue(code, message, path) == [code |-> code, message |-> message, path |-> path]

\* Mutant of ZodPrompt: the min(1) check is missing.
ZodPromptNoMin(v, path) ==
  IF v.t = "undefined" THEN <<Issue("invalid_type", "Required", path)>>
  ELSE IF v.t # "string"
    THEN <<Issue("invalid_type", "Expected string, received " \o v.t, path)>>
  ELSE <<>>

\* z.string().min(1, 'Prompt is required') applied to the property at path.
ZodPrompt(v, path) ==
  IF v.t = "undefined" THEN <<Issue("invalid_type", "Required", path)>>
  ELSE IF v.t # "string"
    THEN <<Issue("invalid_type", "Expected string, received " \o v.t, path)>>
  ELSE IF Len(v.s) < 1 THEN <<Issue("too_small", "Prompt is required", path)>>
  ELSE <<>>

\* Mutant of ZodDefaulted: the default also replaces an empty string, as
\* value || d  would.
ZodDefaultedFalsy(v, d, path) ==
  IF v.t = "undefined" THEN [issues |-> <<>>, value |-> d]
  ELSE IF v.t # "string"
    THEN [issues |-> <<Issue("invalid_type", "Expected string, received " \o v.t, path)>>,
          value |-> d]
  ELSE [issues |-> <<>>, value |-> IF v.s = <<>> THEN d ELSE v.s]

\* z.string().optional().default(d) applied to the property at path:
\* the issues raised and the value produced.
ZodDefaulted(v, d, path) ==
  IF v.t = "undefined" THEN [issues |-> <<>>, value |-> d]
  ELSE IF v.t # "string"
    THEN [issues |-> <<Issue("invalid_type", "Expected string, received " \o v.t, path)>>,
          value |-> d]
  ELSE [issues |-> <<>>, value |-> v.s]

\* generateCodeSchema.parse(req.body): every property is checked and the
\* issues of all of them are collected, in the order of the schema's keys.
generateCodeSchema(body) ==
  IF body.kind # "object"
    THEN [ok |-> FALSE,
          issues |-> <<Issue("invalid_type", "Expected object, received " \o body.kind, "")>>,
          prompt |-> <<>>, language |-> <<>>, model |-> <<>>]
    ELSE LET l == ZodDefaulted(body.language, <<"javascript">>, "language")
             m == ZodDefaulted(body.model, <<"codellama">>, "model")
             issues == ZodPrompt(body.prompt, "prompt") \o l.issues \o m.issues
         IN  [ok |-> issues = <<>>,
              issues |-> issues,
              prompt |-> body.prompt.s,
              language |-> l.value,
              model |-> m.value]

\* JSON text of one issue, as JSON.stringify writes it.
IssueJson(i) ==
  <<"{", "\"code\": ", i.code, "\"message\": ", i.message, "\"path\": ", i.path, "}">>

\* ZodError.message: the JSON text of the array of issues.
ZodErrorMessage(issues) ==
  <<"[">> \o Concat([k \in 1..Len(issues) |-> IssueJson(issues[k])]) \o <<"]">>

(***************************************************************************)
(* The model registry: modelEndpoints.                                     *)
(***************************************************************************)
\* The keys the object literal defines.
RegistryKeys == {<<"codellama">>, <<"starcoder">>, <<"wizard-coder">>}

\* Keys every object literal inherits from Object.prototype.
ObjectPrototypeKeys == {<<"constructor">>, <<"__proto__">>, <<"toString">>}

\* modelEndpoints[model]: an endpoint descriptor, an inherited member of
\* Object.prototype (truthy, without url, headers or transform), or undefined.
modelEndpoints(model) ==
  IF model \in RegistryKeys THEN [t |-> "endpoint", id |-> model]
  ELSE IF model \in ObjectPrototypeKeys THEN [t |-> "inherited", id |-> model]
  ELSE [t |-> "undefined", id |-> model]

\* Property read  data.name  on a parsed JSON value that is not null.
Get(data, name) == IF data.t = "object" THEN data[name] ELSE Undefined

\* endpoint.transform(data): [threw, value].
transform(id, data) ==
  IF id = <<"wizard-coder">>
    THEN IF data.t = "null" THEN [threw |-> TRUE, value |-> Undefined]
         ELSE LET o == Get(data, "output")
                  text == IF o.t = "object" THEN Lift(o.text) ELSE Undefined
              IN  [threw |-> FALSE, value |-> OrElse(text, StrV(<<>>))]
  ELSE IF data.t = "null" THEN [threw |-> TRUE, value |-> Undefined]
  ELSE IF id = <<"starcoder">>
    THEN [threw |-> FALSE, value |-> OrElse(Get(data, "generated_text"), StrV(<<>>))]
  ELSE [threw |-> FALSE, value |-> OrElse(Get(data, "output"), StrV(<<>>))]

(***************************************************************************)
(* Errors and the settlement of generateCode.                              *)
(***************************************************************************)
Err(kind, name, message) == [kind |-> kind, name |-> name, message |-> message]

NoGen ==
  [state |-> "none", value |-> Undefined, kind |-> "", name |-> "", message |-> <<>>]

Pending == [NoGen EXCEPT !.state = "pending"]

Returned(v) == [NoGen EXCEPT !.state = "returned", !.value = v]

Thrown(e) ==
  [NoGen EXCEPT !.state = "thrown", !.kind = e.kind, !.name = e.name,
                !.message = e.message]

\* throw new Error(`Unsupported model: ${model}`)
UnsupportedModelError(model) ==
  Err("UnsupportedModel", "Error", <<"Unsupported model: ">> \o model)

\* Mutant of ProviderError: the message leaves out the upstream status.
ProviderErrorNoStatus(status, errorText) ==
  Err("ProviderError", "Error", <<"API request failed: ">> \o errorText)

\* throw new Error(`API request failed (${response.status}): ${errorText}`)
ProviderError(status, errorText) ==
  Err("ProviderError", "Error",
      <<"API request failed (", ToString(status), "): ">> \o errorText)

\* throw new Error('Empty response from AI model')
EmptyResultError == Err("EmptyResult", "Error", <<"Empty response from AI model">>)

\* throw new Error(`Request to ${model} API timed out after 30 seconds`)
TimeoutError(model) ==
  Err("Timeout", "Error",
      <<"Request to ">> \o model \o <<" API timed out after ", "30", " seconds">>)

\* Errors raised by the libraries, not by generateCode itself.
AbortError == Err("UnexpectedError", "AbortError", <<"The user aborted a request.">>)

InvalidUrlError == Err("UnexpectedError", "TypeError", <<"Only absolute URLs are supported">>)

NetworkError(reason) ==
  Err("UnexpectedError", "FetchError", <<"request failed, reason: ", reason>>)

InvalidJsonError ==
  Err("UnexpectedError", "FetchError", <<"invalid json response body">>)

NotAFunctionError ==
  Err("UnexpectedError", "TypeError", <<"result.trim is not a function">>)

NullPropertyError ==
  Err("UnexpectedError", "TypeError", <<"Cannot read properties of null">>)

\* Mutant of CatchFetchError: the AbortError is thrown again as it is.
CatchFetchErrorRethrow(fetchError, model) == fetchError

\* Mutant of CatchFetchError: every error of the call is reported as a timeout.
CatchFetchErrorAlwaysTimeout(fetchError, model) == TimeoutError(model)

\* catch (fetchError): an AbortError becomes the timeout error, anything
\* else is thrown again unchanged.
CatchFetchError(fetchError, model) ==
  IF fetchError.name = "AbortError" THEN TimeoutError(model) ELSE fetchError

\* Mutant of Normalize: the result is trimmed before it is returned.
NormalizeTrimmed(id, data) ==
  LET r == transform(id, data)
  IN  IF r.threw THEN Thrown(NullPropertyError)
      ELSE IF ~Truthy(r.value) THEN Thrown(EmptyResultError)
      ELSE IF r.value.t # "string" THEN Thrown(NotAFunctionError)
      ELSE IF Trim(r.value.s) = <<>> THEN Thrown(EmptyResultError)
      ELSE Returned(StrV(Trim(r.value.s)))

\* Mutant of Normalize: only  !result  is tested, not  result.trim() === ''.
NormalizeNoTrim(id, data) ==
  LET r == transform(id, data)
  IN  IF r.threw THEN Thrown(NullPropertyError)
      ELSE IF ~Truthy(r.value) THEN Thrown(EmptyResultError)
      ELSE IF r.value.t # "string" THEN Thrown(NotAFunctionError)
      ELSE Returned(r.value)

\* Mutant of Normalize: trim is applied to strings only, so a truthy value
\* that is not a string is returned.
NormalizeAnyType(id, data) ==
  LET r == transform(id, data)
  IN  IF r.threw THEN Thrown(NullPropertyError)
      ELSE IF ~Truthy(r.value) THEN Thrown(EmptyResultError)
      ELSE IF r.value.t = "string" /\ Trim(r.value.s) = <<>> THEN Thrown(EmptyResultError)
      ELSE Returned(r.value)

\* Lines 80-87 once response.json() has resolved with data: the settlement
\* of the inner try block, before catch (fetchError).
Normalize(id, data) ==
  LET r == transform(id, data)
  IN  IF r.threw THEN Thrown(NullPropertyError)
      ELSE IF ~Truthy(r.value) THEN Thrown(EmptyResultError)
      ELSE IF r.value.t # "string" THEN Thrown(NotAFunctionError)
      ELSE IF Trim(r.value.s) = <<>> THEN Thrown(EmptyResultError)
      ELSE Returned(r.value)

\* The settlement of generateCode given the settlement g of its inner try
\* block: what the block throws passes through catch (fetchError).
Settle(g, model) ==
  IF g.state = "thrown"
    THEN Thrown(CatchFetchError(Err(g.kind, g.name, g.message), model))
    ELSE g

\* The prompt sent to the provider.
ProviderPrompt(language, prompt) ==
  <<"Write ">> \o language \o <<" code for: ">> \o prompt
    \o <<"\n", "Only respond with code, no explanations.">>

TimeoutMs == 30000

(***************************************************************************)
(* The responses of generateCodeHandler.                                   *)
(***************************************************************************)
NoRes ==
  [sent |-> FALSE, status |-> 0, error |-> Undefined, message |-> Undefined,
   model |-> Undefined, code |-> Undefined, language |-> Undefined]

\* res.json({ code, language })
Respond200(code, language) ==
  [NoRes EXCEPT !.sent = TRUE, !.status = 200, !.code = code,
                !.language = StrV(language)]

\* Mutant of Respond500: the body leaves out the model id.
Respond500NoModel(g, model) ==
  [NoRes EXCEPT !.sent = TRUE, !.status = 500,
                !.error = StrV(<<"Failed to generate code">>),
                !.message = StrV(IF g.message # <<>> THEN g.message
                                 ELSE <<"Unknown error occurred">>)]

\* res.status(500).json({ error, message, model })
Respond500(g, model) ==
  [NoRes EXCEPT !.sent = TRUE, !.status = 500,
                !.error = StrV(<<"Failed to generate code">>),
                !.message = StrV(IF g.message # <<>> THEN g.message
                                 ELSE <<"Unknown error occurred">>),
                !.model = StrV(model)]

\* res.status(400).json({ error, message })
Respond400(message) ==
  [NoRes EXCEPT !.sent = TRUE, !.status = 400,
                !.error = StrV(<<"Invalid request data">>),
                !.message = StrV(IF message # <<>> THEN message
                                 ELSE <<"Validation failed">>)]

\* The handler's answer to a settled generateCode.
Answer(g, j) ==
  IF g.state = "returned" THEN Respond200(g.value, j.language)
  ELSE Respond500(g, j.model)

\* The error a failing res.json throws.
SendError ==
  Err("UnexpectedError", "Error", <<"Cannot set headers after they are sent to the client">>)

\* What the handler has done at its boundary: the statuses it tried to send,
\* in order, and the error it handed to next(), if any.
NoBoundary == [sends |-> <<>>, forwarded |-> FALSE, error |-> <<>>]

\* errorHandler of index.ts: no error of this handler is an ApiError, so
\* the status is 500; the body is { error }.
errorHandler(err, environment) ==
  [NoRes EXCEPT !.sent = TRUE,
                !.status = IF err.name = "ApiError" THEN err.statusCode ELSE 500,
                !.error = StrV(IF environment = "production"
                                 THEN <<"Internal server error">>
                                 ELSE err.message)]

\* Mutant of Try400: there is no outer try block, so a throwing send leaves
\* the request without any answer.
Try400Uncaught(message, f, e, sends) ==
  IF 400 \in f
    THEN [res |-> NoRes,
          boundary |-> [NoBoundary EXCEPT !.sends = sends \o <<400>>]]
    ELSE [res |-> Respond400(message),
          boundary |-> [NoBoundary EXCEPT !.sends = sends \o <<400>>]]

\* catch (validationError): res.status(400).json; when that throws, the
\* outer catch hands the error to next(), which reaches errorHandler.
Try400(message, f, e, sends) ==
  IF 400 \in f
    THEN [res |-> errorHandler(SendError, e),
          boundary |-> [sends |-> sends \o <<400>>, forwarded |-> TRUE,
                        error |-> SendError.message]]
    ELSE [res |-> Respond400(message),
          boundary |-> [NoBoundary EXCEPT !.sends = sends \o <<400>>]]

\* catch (genError): res.status(500).json; when that throws, the error is
\* caught by catch (validationError).
Try500(g, model, f, e, sends) ==
  IF 500 \in f
    THEN Try400(SendError.message, f, e, sends \o <<500>>)
    ELSE [res |-> Respond500(g, model),
          boundary |-> [NoBoundary EXCEPT !.sends = sends \o <<500>>]]

\* The handler's boundary once generateCode has settled with g: f is the
\* set of statuses whose send throws.
Deliver(g, j, f, e) ==
  IF g.state = "returned"
    THEN IF 200 \in f
           THEN Try500(Thrown(SendError), j.model, f, e, <<200>>)
           ELSE [res |-> Answer(g, j),
                 boundary |-> [NoBoundary EXCEPT !.sends = <<200>>]]
    ELSE Try500(g, j.model, f, e, <<>>)

(***************************************************************************)
(* Inputs: request bodies and provider behaviours.                         *)
(***************************************************************************)
SampleCode == <<"def reverse(s): return s[::-1]">>

PromptInputs ==
  {Undefined, Null, NumV(42), StrV(<<>>), StrV(<<" ">>), StrV(<<"reverse a string">>)}

LanguageInputs == {Undefined, NumV(42), StrV(<<"python">>)}

ModelInputs ==
  {Undefined, Null, StrV(<<>>), StrV(<<"unknown-model">>), StrV(<<"constructor">>),
   StrV(<<"__proto__">>)}
    \cup {StrV(k) : k \in RegistryKeys}

Bodies ==
  [kind : {"object"}, prompt : PromptInputs, language : LanguageInputs,
   model : ModelInputs]
    \cup {[kind |-> "array", prompt |-> Undefined, language |-> Undefined,
           model |-> Undefined]}

Statuses == {200, 201, 404, 503}

StatusText(status) ==
  CASE status = 200 -> <<"OK">>
    [] status = 201 -> <<"Created">>
    [] status = 404 -> <<"Not Found">>
    [] OTHER -> <<"Service Unavailable">>

BodyTexts == {<<>>, <<"model overloaded">>}

NetworkReasons == {"ECONNREFUSED", "ECONNRESET"}

TextLeaves ==
  {UndefLeaf, Leaf("null", <<>>), Leaf("string", <<>>), Leaf("string", <<"\n">>),
   Leaf("string", SampleCode), Leaf("number", <<"7">>)}

FieldValues ==
  {Undefined, Null, StrV(<<>>), StrV(<<" ", "\n", "\t">>), StrV(SampleCode),
   StrV(<<" ">> \o SampleCode \o <<"\n">>), NumV(0), NumV(42), BoolV(TRUE),
   BoolV(FALSE), ArrV}
    \cup {ObjV(l) : l \in TextLeaves}

JsonBodies ==
  [t : {"object"}, output : FieldValues,
   generated_text : {Undefined, StrV(<<>>), StrV(<<" ">>), StrV(SampleCode), NumV(42)}]
    \cup {[t |-> k, output |-> Undefined, generated_text |-> Undefined] :
            k \in {"null", "string", "array"}}

(***************************************************************************)
(* State.                                                                  *)
(*   req       req.body, the JSON body of the request                      *)
(*   pc        position of the request: idle, awaitFetch, awaitText,       *)
(*             awaitJson, done                                             *)
(*   job       the validated job { prompt, language, model }               *)
(*   timer     the 30 s timer: none, armed, fired, cleared                 *)
(*   aborted   controller.signal.aborted                                   *)
(*   call      the outbound fetch: state, number of fetch calls, prompt    *)
(*   elapsed   milliseconds since the request was received                 *)
(*   response  the provider's response: status (0 before it arrives), the  *)
(*             time it arrived, and what reading its body produced         *)
(*   gen       the settlement of generateCode                              *)
(*   res       the HTTP response sent to the caller                        *)
(*   faults    the statuses whose res.json throws (none in Spec)           *)
(*   env       NODE_ENV                                                    *)
(*   boundary  the sends the handler tried and the error given to next()   *)
(*   invocations  number of calls of generateCode                          *)
(***************************************************************************)
NoJob == [valid |-> FALSE, prompt |-> <<>>, language |-> <<>>, model |-> <<>>]

NoCall == [state |-> "none", count |-> 0, prompt |-> <<>>]

NoReq ==
  [kind |-> "none", prompt |-> Undefined, language |-> Undefined, model |-> Undefined]

NoData == [t |-> "undefined", output |-> Undefined, generated_text |-> Undefined]

NoResponse == [status |-> 0, at |-> 0, read |-> "none", text |-> <<>>, data |-> NoData]

\* response.ok
Ok(status) == status >= 200 /\ status <= 299

SendStatuses == {200, 400, 500}

Environments == {"development", "production"}

InitRequest ==
  /\ req = NoReq
  /\ pc = "idle"
  /\ job = NoJob
  /\ timer = "none"
  /\ aborted = FALSE
  /\ call = NoCall
  /\ elapsed = 0
  /\ response = NoResponse
  /\ gen = NoGen
  /\ res = NoRes
  /\ boundary = NoBoundary
  /\ invocations = 0

(***************************************************************************)
(* Concurrent requests. Each call of generateCode makes its own            *)
(* AbortController and its own timer; the timer's callback aborts the      *)
(* controller it closed over, and fetch listens to the signal it was given.*)
(*   rq           per request: position, job, the controller and timer it  *)
(*                created, its call (state and signal), the settlement of  *)
(*                generateCode and the response                            *)
(*   controllers  per controller: signal.aborted                          *)
(*   timers       per timer: state and the controller its callback aborts  *)
(***************************************************************************)
Requests == 1..NumRequests

NoRq ==
  [pc |-> "idle", job |-> NoJob, controller |-> 0, timer |-> 0,
   call |-> [state |-> "none", signal |-> 0], status |-> 0, gen |-> NoGen,
   res |-> NoRes]

NoTimer == [state |-> "none", controller |-> 0]

ConcInit ==
  /\ rq = [i \in Requests |-> NoRq]
  /\ controllers = [c \in Requests |-> FALSE]
  /\ timers = [t \in Requests |-> NoTimer]

\* Mutant of NewController: one controller, created once, serves all calls.
NewControllerShared(i) == 1

\* const controller = new AbortController(): a controller of its own for
\* the i-th call of generateCode.
NewController(i) == i

\* const timeoutId = setTimeout(...): a timer of its own for the i-th call.
NewTimer(i) == i

ConcBodies ==
  {[kind |-> "object", prompt |-> p, language |-> Undefined, model |-> m] :
     p \in {StrV(<<>>), StrV(<<"reverse a string">>)},
     m \in {Undefined, StrV(<<"wizard-coder">>), StrV(<<"unknown-model">>),
            StrV(<<"constructor">>)}}

ConcStatuses == {200, 503}

ConcJsonBodies ==
  {[t |-> "object", output |-> o, generated_text |-> Undefined] :
     o \in {StrV(SampleCode), StrV(<<" ">>), ObjV(Leaf("string", SampleCode))}}

\* Request i is settled with g and answered.
Done(r, g) ==
  [r EXCEPT !.pc = "done", !.gen = g,
            !.res = Deliver(g, r.job, {}, "development").res]

\* Request i arrives: the handler up to its first suspension.
CReceive(i, body) ==
  /\ rq[i].pc = "idle"
  /\ LET p == generateCodeSchema(body)
         ep == modelEndpoints(p.model)
         j == [valid |-> TRUE, prompt |-> p.prompt, language |-> p.language,
               model |-> p.model]
         c == NewController(i)
         t == NewTimer(i)
         r == [rq[i] EXCEPT !.job = j]
         started == [r EXCEPT !.controller = c, !.timer = t]
     IN  IF ~p.ok
           THEN /\ rq' = [rq EXCEPT ![i].pc = "done",
                                    ![i].res = Respond400(ZodErrorMessage(p.issues))]
                /\ UNCHANGED <<controllers, timers>>
         ELSE IF ep.t = "undefined"
           THEN /\ rq' = [rq EXCEPT ![i] = Done(r, Thrown(UnsupportedModelError(p.model)))]
                /\ UNCHANGED <<controllers, timers>>
         ELSE /\ controllers' = [controllers EXCEPT ![c] = FALSE]
              /\ timers' = [timers EXCEPT ![t] = [state |-> "armed", controller |-> c]]
              /\ IF ep.t = "inherited"
                   THEN rq' = [rq EXCEPT ![i] =
                                 Done([started EXCEPT !.call = [state |-> "rejected",
                                                                signal |-> c]],
                                      Settle(Thrown(InvalidUrlError), p.model))]
                   ELSE rq' = [rq EXCEPT ![i] =
                                 [started EXCEPT !.pc = "awaitFetch", !.gen = Pending,
                                                 !.call = [state |-> "pending",
                                                           signal |-> c]]]

\* The callback of timer t: the controller it closed over is aborted, and
\* every pending call listening to that controller's signal rejects.
CTimerFires(t) ==
  /\ timers[t].state = "armed"
  /\ timers' = [timers EXCEPT ![t].state = "fired"]
  /\ controllers' = [controllers EXCEPT ![timers[t].controller] = TRUE]
  /\ rq' = [i \in Requests |->
              IF rq[i].call.state = "pending"
                   /\ rq[i].call.signal = timers[t].controller
                THEN Done([rq[i] EXCEPT !.call.state = "aborted"],
                          Settle(Thrown(AbortError), rq[i].job.model))
                ELSE rq[i]]

\* The response of request i arrives: clearTimeout(timeoutId).
CFetchResponds(i, status) ==
  /\ rq[i].pc = "awaitFetch"
  /\ rq[i].call.state = "pending"
  /\ timers' = [timers EXCEPT ![rq[i].timer].state = "cleared"]
  /\ rq' = [rq EXCEPT ![i].pc = "awaitBody", ![i].status = status,
                      ![i].call.state = "responded"]
  /\ UNCHANGED controllers

\* The call of request i fails before a response.
CFetchFails(i, reason) ==
  /\ rq[i].pc = "awaitFetch"
  /\ rq[i].call.state = "pending"
  /\ rq' = [rq EXCEPT ![i] = Done([rq[i] EXCEPT !.call.state = "failed"],
                                  Settle(Thrown(NetworkError(reason)),
                                         rq[i].job.model))]
  /\ UNCHANGED <<controllers, timers>>

\* The body of the response of request i has been read.
CBodyRead(i, text, data) ==
  /\ rq[i].pc = "awaitBody"
  /\ rq' = [rq EXCEPT ![i] =
              Done(rq[i],
                   IF Ok(rq[i].status)
                     THEN Settle(Normalize(rq[i].job.model, data), rq[i].job.model)
                     ELSE Settle(Thrown(ProviderError(rq[i].status, text)),
                                 rq[i].job.model))]
  /\ UNCHANGED <<controllers, timers>>

ConcNext ==
  \/ \E i \in Requests, body \in ConcBodies : CReceive(i, body) /\ UNCHANGED <<genVars, initVars, subVars>>
  \/ \E t \in Requests : CTimerFires(t) /\ UNCHANGED <<genVars, initVars, subVars>>
  \/ \E i \in Requests, status \in ConcStatuses :
       CFetchResponds(i, status) /\ UNCHANGED <<genVars, initVars, subVars>>
  \/ \E i \in Requests : CFetchFails(i, "ECONNRESET") /\ UNCHANGED <<genVars, initVars, subVars>>
  \/ \E i \in Requests, data \in ConcJsonBodies :
       CBodyRead(i, <<"model overloaded">>, data) /\ UNCHANGED <<genVars, initVars, subVars>>

(***************************************************************************)
(* POST /api/init-models and POST /api/init-plans (routes.ts).             *)
(*   store  per route the names of the records in its table, in order      *)
(*   initc  per call: position, the number of records it saw, the default  *)
(*          it is creating, how many it created, the status it answered    *)
(***************************************************************************)
Routes == {"init-models", "init-plans"}

Callers == Routes \X (1..NumCallers)

\* The defaults of init-models: none of them has a type.
DefaultModels ==
  <<[name |-> "GPT-4o",
     description |-> "OpenAI's GPT-4o model - most capable model for code generation",
     type |-> "undefined"],
    [name |-> "Claude 3 Opus", description |-> "Anthropic's Claude 3 Opus - advanced reasoning and code generation",
     type |-> "undefined"],
    [name |-> "Claude 3 Sonnet", description |-> "Anthropic's Claude 3 Sonnet - balanced performance and cost",
     type |-> "undefined"],
    [name |-> "Mistral Large", description |-> "Mistral's flagship model for code and general tasks",
     type |-> "undefined"],
    [name |-> "Mistral Small", description |-> "Mistral's efficient model for code and general tasks",
     type |-> "undefined"]>>

\* The defaults of init-plans; the price is in hundredths.
DefaultPlans ==
  <<[name |-> "Basic", description |-> "Basic plan for occasional users",
     price |-> 0, stripePriceId |-> "free_plan"],
    [name |-> "Pro", description |-> "Pro plan for professional developers",
     price |-> 2999, stripePriceId |-> "pro_plan"]>>

Defaults(route) == IF route = "init-models" THEN DefaultModels ELSE DefaultPlans

\* insertAIModelSchema.parse succeeds.
insertAIModelSchema(m) ==
  /\ m.name # ""
  /\ m.description # ""
  /\ m.type \in {"code", "chat", "image-to-code"}

\* Mutant of insertPlanSchema: the price may be zero (nonnegative()).
insertPlanSchemaNonNegative(p) ==
  /\ p.name # ""
  /\ p.description # ""
  /\ p.price >= 0
  /\ p.stripePriceId # ""

\* insertPlanSchema.parse succeeds.
insertPlanSchema(p) ==
  /\ p.name # ""
  /\ p.description # ""
  /\ p.price > 0
  /\ p.stripePriceId # ""

ValidInsert(route, r) ==
  IF route = "init-models" THEN insertAIModelSchema(r) ELSE insertPlanSchema(r)

\* The database takes the row: plans.price is an integer column.
DbAccepts(route, r) == route = "init-plans" => r.price % 100 = 0

EmptyStore == [r \in Routes |-> <<>>]

InitStores == {EmptyStore, [EmptyStore EXCEPT !["init-plans"] = <<"Team">>],
               [EmptyStore EXCEPT !["init-models"] = <<"Custom">>]}

NoInitCall == [pc |-> "idle", observed |-> 0, idx |-> 0, created |-> 0, status |-> 0]

\* The call goes on to create default k: its parse throws (500), or the
\* insert is issued, or all defaults are done (200).
Proceed(c, r, k) ==
  IF k > Len(Defaults(c[1])) THEN [r EXCEPT !.pc = "done", !.status = 200]
  ELSE IF ~ValidInsert(c[1], Defaults(c[1])[k])
    THEN [r EXCEPT !.pc = "done", !.status = 500]
  ELSE [r EXCEPT !.pc = "awaitInsert", !.idx = k]

\* The handler starts and asks the storage for all records.
InitBegin(c) ==
  /\ initc[c].pc = "idle"
  /\ initc' = [initc EXCEPT ![c].pc = "awaitGet"]
  /\ UNCHANGED store

\* The pending storage call of c resolves: the select with the table as it
\* is now, or the insert of the default being created.
StorageResolves(c) ==
  \/ /\ initc[c].pc = "awaitGet"
     /\ LET seen == [initc[c] EXCEPT !.observed = Len(store[c[1]])]
        IN  initc' = [initc EXCEPT ![c] =
                        IF Len(store[c[1]]) = 0 THEN Proceed(c, seen, 1)
                        ELSE [seen EXCEPT !.pc = "done", !.status = 200]]
     /\ UNCHANGED store
  \/ /\ initc[c].pc = "awaitInsert"
     /\ DbAccepts(c[1], Defaults(c[1])[initc[c].idx])
     /\ store' = [store EXCEPT ![c[1]] = Append(@, Defaults(c[1])[initc[c].idx].name)]
     /\ initc' = [initc EXCEPT ![c] =
                    Proceed(c, [initc[c] EXCEPT !.created = @ + 1], initc[c].idx + 1)]

\* The pending storage call of c rejects: the handler answers 500.
StorageRejects(c) ==
  /\ initc[c].pc \in {"awaitGet", "awaitInsert"}
  /\ initc' = [initc EXCEPT ![c].pc = "done", ![c].status = 500]
  /\ UNCHANGED store

RoutesNext ==
  \/ \E c \in Callers : InitBegin(c) /\ UNCHANGED <<genVars, concVars, subVars>>
  \/ \E c \in Callers : StorageResolves(c) /\ UNCHANGED <<genVars, concVars, subVars>>
  \/ \E c \in Callers : StorageRejects(c) /\ UNCHANGED <<genVars, concVars, subVars>>

(***************************************************************************)
(* POST /api/subscribe (routes.ts).                                        *)
(*   users  the isSubscribed flag of each stored user                      *)
(*   subc   per call: position, the session's user (NoSession when the     *)
(*          request is not authenticated), the planId of the body, the     *)
(*          number it converts to, the status answered, whether            *)
(*          updateUserSubscription was called, the user's flag at the start*)
(***************************************************************************)
UserIds == {1, 2}

Subscribers == 1..NumSubscribers

NoSession == 0

\* A JavaScript number: NaN or an integer.
NaN == [nan |-> TRUE, n |-> 0]

Num(n) == [nan |-> FALSE, n |-> n]

Numerals == 0..99

Digits == 0..9

IsDigit(sym) == \E d \in Digits : ToString(d) = sym

DigitValue(sym) == CHOOSE d \in Digits : ToString(d) = sym

RECURSIVE DecimalValue(_)
DecimalValue(s) ==
  IF s = <<>> THEN 0
  ELSE 10 * DecimalValue(SubSeq(s, 1, Len(s) - 1)) + DigitValue(s[Len(s)])

\* JavaScript Number(v).
ToNumber(v) ==
  CASE v.t = "number" ->
         IF \E n \in Numerals : ToString(n) = v.s[1]
           THEN Num(CHOOSE n \in Numerals : ToString(n) = v.s[1])
           ELSE NaN
    [] v.t = "string" ->
         IF \A k \in 1..Len(Trim(v.s)) : IsDigit(Trim(v.s)[k])
           THEN Num(DecimalValue(Trim(v.s)))
           ELSE NaN
    [] v.t = "boolean" -> IF v.s = <<"true">> THEN Num(1) ELSE Num(0)
    [] v.t = "null" -> Num(0)
    [] v.t = "array" -> Num(0)
    [] OTHER -> NaN

\* req.isAuthenticated(): the session carries a user.
isAuthenticated(sessionUser) == sessionUser # NoSession

\* Mutant of getPlan: every id finds a plan.
getPlanAny(id, plans) == TRUE

\* storage.getPlan(id) finds a plan; ids are serial, a plan's id is its
\* position in the table.
getPlan(id, plans) == id \in 1..Len(plans)

PlanIdInputs ==
  {Undefined, NumV(0), NumV(1), NumV(2), StrV(<<" ", "1">>), StrV(<<"a">>),
   BoolV(TRUE)}

NoSub ==
  [pc |-> "idle", user |-> NoSession, planId |-> Undefined, plan |-> NaN,
   status |-> 0, called |-> FALSE, was |-> FALSE]

\* requireAuth and the handler up to its first await.
Subscribe(c, sessionUser, planId) ==
  /\ subc[c].pc = "idle"
  /\ LET r == [NoSub EXCEPT !.user = sessionUser, !.planId = planId,
                            !.was = IF sessionUser \in UserIds
                                      THEN users[sessionUser] ELSE FALSE]
     IN  subc' = [subc EXCEPT ![c] =
                   IF ~isAuthenticated(sessionUser)
                     THEN [r EXCEPT !.pc = "done", !.status = 401]
                   ELSE IF sessionUser = NoSession
                     THEN [r EXCEPT !.pc = "done", !.status = 401]
                   ELSE IF ~Truthy(planId)
                     THEN [r EXCEPT !.pc = "done", !.status = 400]
                   ELSE [r EXCEPT !.pc = "awaitPlan", !.plan = ToNumber(planId)]]
  /\ UNCHANGED <<users, store>>

\* storage.getPlan resolves: 404 without a plan, otherwise
\* updateUserSubscription is called.  The query fails for NaN.
GetPlanResolves(c) ==
  /\ subc[c].pc = "awaitPlan"
  /\ ~subc[c].plan.nan
  /\ subc' = [subc EXCEPT ![c] =
               IF getPlan(subc[c].plan.n, store["init-plans"])
                 THEN [@ EXCEPT !.pc = "awaitUpdate", !.called = TRUE]
                 ELSE [@ EXCEPT !.pc = "done", !.status = 404]]
  /\ UNCHANGED <<users, store>>

\* storage.updateUserSubscription(user.id, true) resolves; the handler
\* answers 200.
UpdateResolves(c) ==
  /\ subc[c].pc = "awaitUpdate"
  /\ users' = [u \in UserIds |-> IF u = subc[c].user THEN TRUE ELSE users[u]]
  /\ subc' = [subc EXCEPT ![c].pc = "done", ![c].status = 200]
  /\ UNCHANGED store

\* The pending storage call of c rejects; the handler answers 500.
SubscribeStorageRejects(c) ==
  /\ subc[c].pc \in {"awaitPlan", "awaitUpdate"}
  /\ subc' = [subc EXCEPT ![c].pc = "done", ![c].status = 500]
  /\ UNCHANGED <<users, store>>

SubscribeNext ==
  \/ \E c \in Subscribers, u \in UserIds \cup {NoSession}, planId \in PlanIdInputs :
       Subscribe(c, u, planId) /\ UNCHANGED <<genVars, concVars, initc>>
  \/ \E c \in Subscribers : GetPlanResolves(c) /\ UNCHANGED <<genVars, concVars, initc>>
  \/ \E c \in Subscribers : UpdateResolves(c) /\ UNCHANGED <<genVars, concVars, initc>>
  \/ \E c \in Subscribers :
       SubscribeStorageRejects(c) /\ UNCHANGED <<genVars, concVars, initc>>

RoutesInit ==
  /\ InitRequest
  /\ faults = {}
  /\ env = "development"
  /\ ConcInit
  /\ store \in InitStores
  /\ initc = [c \in Callers |-> NoInitCall]
  /\ users = [u \in UserIds |-> FALSE]
  /\ subc = [c \in Subscribers |-> NoSub]

SpecRoutes == RoutesInit /\ [][RoutesNext]_vars

SubscribeInit ==
  /\ InitRequest
  /\ faults = {}
  /\ env = "development"
  /\ ConcInit
  /\ store \in InitStores
  /\ initc = [c \in Callers |-> NoInitCall]
  /\ users \in [UserIds -> BOOLEAN]
  /\ subc = [c \in Subscribers |-> NoSub]

SpecSubscribe == SubscribeInit /\ [][SubscribeNext]_vars

Init ==
  /\ InitRequest
  /\ faults = {}
  /\ env = "development"
  /\ ConcInit
  /\ store = EmptyStore
  /\ initc = [c \in Callers |-> NoInitCall]
  /\ users = [u \in UserIds |-> FALSE]
  /\ subc = [c \in Subscribers |-> NoSub]

\* The same request in a process where sending a response may throw.
InitFault ==
  /\ InitRequest
  /\ faults \in SUBSET SendStatuses
  /\ env \in Environments
  /\ ConcInit
  /\ store = EmptyStore
  /\ initc = [c \in Callers |-> NoInitCall]
  /\ users = [u \in UserIds |-> FALSE]
  /\ subc = [c \in Subscribers |-> NoSub]

\* generateCode settles with g and the handler answers it.
Finish(g, j) ==
  /\ gen' = g
  /\ res' = Deliver(g, j, faults, env).res
  /\ boundary' = Deliver(g, j, faults, env).boundary
  /\ pc' = "done"

\* The handler up to its first suspension: validation, the registry lookup,
\* the timer and the fetch call.
ReceiveRequest(body) ==
  /\ pc = "idle"
  /\ req' = body
  /\ UNCHANGED <<faults, env>>
  /\ LET p == generateCodeSchema(body)
         ep == modelEndpoints(p.model)
     IN  IF ~p.ok
           THEN /\ res' = Try400(ZodErrorMessage(p.issues), faults, env, <<>>).res
                /\ boundary' =
                     Try400(ZodErrorMessage(p.issues), faults, env, <<>>).boundary
                /\ pc' = "done"
                /\ UNCHANGED <<job, timer, aborted, call, elapsed, response, gen,
                               invocations>>
           ELSE /\ job' = [valid |-> TRUE, prompt |-> p.prompt,
                           language |-> p.language, model |-> p.model]
                /\ invocations' = invocations + 1
                /\ UNCHANGED <<aborted, elapsed, response>>
                /\ IF ep.t = "undefined"
                     THEN /\ Finish(Thrown(UnsupportedModelError(p.model)), job')
                          /\ UNCHANGED <<timer, call>>
                   ELSE IF ep.t = "inherited"
                     THEN \* endpoint.url is undefined: fetch rejects at once
                          /\ timer' = "armed"
                          /\ call' = [state |-> "rejected", count |-> call.count + 1,
                                      prompt |-> ProviderPrompt(p.language, p.prompt)]
                          /\ Finish(Settle(Thrown(InvalidUrlError), p.model), job')
                   ELSE /\ timer' = "armed"
                        /\ call' = [state |-> "pending", count |-> call.count + 1,
                                    prompt |-> ProviderPrompt(p.language, p.prompt)]
                        /\ gen' = Pending
                        /\ pc' = "awaitFetch"
                        /\ UNCHANGED <<res, boundary>>

\* Time passes while the request or its timer is outstanding.
Tick ==
  /\ pc \in {"awaitFetch", "awaitText", "awaitJson"} \/ timer = "armed"
  /\ elapsed < MaxTicks * TickMs
  /\ elapsed' = elapsed + TickMs
  /\ UNCHANGED <<req, pc, job, timer, aborted, call, response, gen, res,
                 faults, env, boundary, invocations>>

\* Mutant of TimerFires: the signal is not handed to fetch, so firing the
\* timer leaves the pending call running.
TimerFiresCallUnaffected ==
  /\ timer = "armed"
  /\ elapsed >= TimeoutMs
  /\ timer' = "fired"
  /\ aborted' = TRUE
  /\ UNCHANGED <<req, pc, job, call, elapsed, response, gen, res,
                 faults, env, boundary, invocations>>

\* The timer callback: controller.abort(). A pending fetch rejects with
\* AbortError, which generateCode catches.
TimerFires ==
  /\ timer = "armed"
  /\ elapsed >= TimeoutMs
  /\ timer' = "fired"
  /\ aborted' = TRUE
  /\ UNCHANGED <<req, job, elapsed, response, faults, env, invocations>>
  /\ IF call.state = "pending"
       THEN /\ call' = [call EXCEPT !.state = "aborted"]
            /\ Finish(Settle(Thrown(AbortError), job.model), job)
       ELSE UNCHANGED <<pc, call, gen, res, boundary>>

\* The provider's response headers arrive: fetch resolves, the timer is
\* cleared, and the body is read as text (not ok) or as JSON (ok).
FetchResponds(status) ==
  /\ pc = "awaitFetch"
  /\ call.state = "pending"
  /\ call' = [call EXCEPT !.state = "responded"]
  /\ timer' = "cleared"
  /\ response' = [response EXCEPT !.status = status, !.at = elapsed]
  /\ pc' = IF Ok(status) THEN "awaitJson" ELSE "awaitText"
  /\ UNCHANGED <<req, job, aborted, elapsed, gen, res, faults, env, boundary,
                 invocations>>

\* Mutant of FetchFails: a failed call is issued again.
FetchFailsRetry(reason) ==
  /\ pc = "awaitFetch"
  /\ call.state = "pending"
  /\ call.count < 3
  /\ call' = [call EXCEPT !.count = @ + 1]
  /\ UNCHANGED <<req, pc, job, timer, aborted, elapsed, response, gen, res,
                 faults, env, boundary, invocations>>

\* The call fails before any response (network failure): fetch rejects.
FetchFails(reason) ==
  /\ pc = "awaitFetch"
  /\ call.state = "pending"
  /\ call' = [call EXCEPT !.state = "failed"]
  /\ Finish(Settle(Thrown(NetworkError(reason)), job.model), job)
  /\ UNCHANGED <<req, job, timer, aborted, elapsed, response, faults, env,
                 invocations>>

\* response.text() resolves with the body text.
TextResolves(text) ==
  /\ pc = "awaitText"
  /\ response' = [response EXCEPT !.read = "text", !.text = text]
  /\ Finish(Settle(Thrown(ProviderError(response.status, text)), job.model), job)
  /\ UNCHANGED <<req, job, timer, aborted, call, elapsed, faults, env, invocations>>

\* response.text() rejects: .catch(() => response.statusText)
TextRejects ==
  /\ pc = "awaitText"
  /\ response' = [response EXCEPT !.read = "textFailed"]
  /\ Finish(Settle(Thrown(ProviderError(response.status, StatusText(response.status))),
                   job.model), job)
  /\ UNCHANGED <<req, job, timer, aborted, call, elapsed, faults, env, invocations>>

\* response.json() resolves with data; transform and the emptiness check.
JsonResolves(data) ==
  /\ pc = "awaitJson"
  /\ response' = [response EXCEPT !.read = "json", !.data = data]
  /\ Finish(Settle(Normalize(job.model, data), job.model), job)
  /\ UNCHANGED <<req, job, timer, aborted, call, elapsed, faults, env, invocations>>

\* response.json() rejects: the body is not valid JSON.
JsonRejects ==
  /\ pc = "awaitJson"
  /\ response' = [response EXCEPT !.read = "jsonFailed"]
  /\ Finish(Settle(Thrown(InvalidJsonError), job.model), job)
  /\ UNCHANGED <<req, job, timer, aborted, call, elapsed, faults, env, invocations>>

\* The variables a single request leaves alone.
Others == UNCHANGED <<concVars, initVars, subVars>>

Next ==
  \/ \E body \in Bodies : ReceiveRequest(body) /\ Others
  \/ Tick /\ Others
  \/ TimerFires /\ Others
  \/ \E status \in Statuses : FetchResponds(status) /\ Others
  \/ \E reason \in NetworkReasons : FetchFails(reason) /\ Others
  \/ \E text \in BodyTexts : TextResolves(text) /\ Others
  \/ TextRejects /\ Others
  \/ \E data \in JsonBodies : JsonResolves(data) /\ Others
  \/ JsonRejects /\ Others

Spec == Init /\ [][Next]_vars

\* The request when sending a response may throw.
SpecFault == InitFault /\ [][Next]_vars

\* Concurrent requests.
SpecConc == Init /\ [][ConcNext]_vars

\* The request under the scheduling the runtime guarantees: the handler
\* runs, time passes and a due timer fires. Nothing makes the provider act.
SpecLive ==
  /\ Init
  /\ [][Next]_vars
  /\ WF_vars(\E body \in Bodies : ReceiveRequest(body) /\ Others)
  /\ WF_vars(Tick /\ Others)
  /\ WF_vars(TimerFires /\ Others)

(***************************************************************************)
(* Properties.                                                             *)
(***************************************************************************)
Settled(g) == g.state \in {"returned", "thrown"}

\* The provider answered 2xx and its body was parsed as JSON.
JsonRead == Ok(response.status) /\ response.read = "json"

\* What the endpoint's transform makes of the parsed body.
Transformed == transform(job.model, response.data)

\* The transform yields a string that is not blank.
NonBlankTransform ==
  /\ ~Transformed.threw
  /\ Transformed.value.t = "string"
  /\ Trim(Transformed.value.s) # <<>>

\* The transform yields a string that is empty or all whitespace.
BlankTransform ==
  /\ ~Transformed.threw
  /\ Transformed.value.t = "string"
  /\ Trim(Transformed.value.s) = <<>>

\* C1: a valid job for a registry model whose provider answers 2xx with a
\* body whose transform is a non-blank string gets exactly the transform's
\* output back, untrimmed, in a 200 response { code, language } whose
\* language is the validated language of the job.
C1_SuccessReturnsTransformOutput ==
  (pc = "done" /\ job.valid /\ job.model \in RegistryKeys /\ JsonRead
     /\ NonBlankTransform)
    => /\ gen.state = "returned"
       /\ gen.value = Transformed.value
       /\ res = [NoRes EXCEPT !.sent = TRUE, !.status = 200,
                              !.code = Transformed.value,
                              !.language = StrV(job.language)]
       /\ job.language = IF req.language.t = "undefined" THEN <<"javascript">>
                         ELSE req.language.s

C1_Witness ==
  /\ pc = "done" /\ JsonRead /\ NonBlankTransform
  /\ res.status = 200
  /\ res.code.s # Trim(res.code.s)
  /\ req.language = StrV(<<"python">>)
  /\ job.model = <<"codellama">>

\* The request body has no prompt, a prompt that is not a string, or the
\* empty string as prompt.
BadPrompt == req.kind # "none" /\ (req.prompt.t # "string" \/ req.prompt.s = <<>>)

\* C2: a request whose prompt is missing, not a string or empty fails
\* validation and is answered 400, whatever language and model are; no job
\* is dispatched.
C2_BadPromptIs400 ==
  BadPrompt
    => /\ pc = "done"
       /\ ~job.valid
       /\ gen = NoGen
       /\ call = NoCall /\ timer = "none"
       /\ res.sent /\ res.status = 400
       /\ res.error = StrV(<<"Invalid request data">>)

C2_Witness ==
  /\ BadPrompt
  /\ req.prompt = StrV(<<>>)
  /\ req.language = StrV(<<"python">>)
  /\ req.model = StrV(<<"starcoder">>)
  /\ res.status = 400

\* C3: a job whose model id is not an entry the registry defines fails with
\* 'Unsupported model: <id>' before any timer is started or any call is made.
C3_UnknownModelIsUnsupported ==
  (pc # "idle" /\ job.valid /\ job.model \notin RegistryKeys)
    => /\ gen.state = "thrown"
       /\ gen.kind = "UnsupportedModel"
       /\ gen.message = <<"Unsupported model: ">> \o job.model
       /\ timer = "none"
       /\ call = NoCall

\* C4: when the timer fires while the call is pending, the call is aborted
\* and generateCode fails with Timeout, its message naming the model and the
\* 30 second bound; once that outcome exists neither a pending call nor an
\* armed timer is left, and 30 seconds have passed.
C4_TimerStep ==
  (call.state = "pending" /\ timer = "armed" /\ timer' = "fired")
    => /\ call'.state = "aborted"
       /\ aborted'
       /\ gen'.state = "thrown" /\ gen'.kind = "Timeout"
       /\ Contains(gen'.message, job.model)
       /\ Contains(gen'.message, <<ToString(TimeoutMs \div 1000), " seconds">>)
       /\ res'.sent /\ res'.status = 500
       /\ pc' = "done"

C4_TimeoutLeavesNothing ==
  gen.kind = "Timeout"
    => /\ call.state = "aborted"
       /\ timer = "fired"
       /\ elapsed >= TimeoutMs
       /\ pc = "done"

C4_TimeoutAbortsCall == [][C4_TimerStep]_vars /\ []C4_TimeoutLeavesNothing

C4_Witness ==
  /\ gen.kind = "Timeout"
  /\ res.status = 500
  /\ call.state = "aborted"
  /\ job.model = <<"wizard-coder">>

\* C5: an attempt settles once; at the step that settles it the outcome is
\* Timeout exactly when the token has been fired; a fired token never goes
\* with a success or a ProviderError, and Timeout never goes with a token
\* that was not fired.
C5_SettleStep ==
  /\ (~Settled(gen) /\ Settled(gen')) => ((gen'.kind = "Timeout") <=> aborted')
  /\ Settled(gen) => (gen' = gen /\ res' = res)
  /\ res.sent => res' = res

C5_TokenAndOutcome ==
  /\ aborted => (gen.state = "thrown" /\ gen.kind \notin {"ProviderError", "EmptyResult"})
  /\ gen.kind = "Timeout" => (aborted /\ timer = "fired")
  /\ (pc = "done" /\ job.valid) => (Settled(gen) /\ res.sent)

C5_OneOutcomePerAttempt == [][C5_SettleStep]_vars /\ []C5_TokenAndOutcome

\* The response arrived after the 30 seconds had passed and before the
\* timer callback ran.
C5_Witness ==
  /\ response.status # 0
  /\ response.at >= TimeoutMs
  /\ gen.state = "returned"
  /\ ~aborted

\* C6: a response with a status outside 2xx makes generateCode fail with
\* ProviderError, the message holding the status and the body text (the
\* status text when the body cannot be read); its body is never parsed as
\* JSON and never yields a success.
C6_NonOkIsProviderError ==
  (response.status # 0 /\ ~Ok(response.status))
    => /\ pc \in {"awaitText", "done"}
       /\ response.read \in {"none", "text", "textFailed"}
       /\ response.data = NoData
       /\ gen.state # "returned"
       /\ res.status # 200
       /\ pc = "done"
            => /\ gen.state = "thrown" /\ gen.kind = "ProviderError"
               /\ Contains(gen.message, <<ToString(response.status)>>)
               /\ response.read = "text" => Contains(gen.message, response.text)
               /\ response.read = "textFailed"
                    => Contains(gen.message, StatusText(response.status))
               /\ res.status = 500

C6_Witness ==
  /\ response.status = 503
  /\ response.read = "text"
  /\ response.text = <<"model overloaded">>
  /\ gen.kind = "ProviderError"

\* C7: a 2xx response whose transform yields an empty or all-whitespace
\* string (the provider's field may be absent) makes generateCode fail with
\* EmptyResult, and no success response is sent.
C7_BlankIsEmptyResult ==
  (pc = "done" /\ JsonRead /\ BlankTransform)
    => /\ gen.state = "thrown" /\ gen.kind = "EmptyResult"
       /\ res.sent /\ res.status = 500
       /\ res.code = Undefined

C7_Witness ==
  /\ pc = "done" /\ JsonRead /\ BlankTransform
  /\ response.data.t = "object"
  /\ response.data.output = StrV(<<" ", "\n", "\t">>)
  /\ job.model = <<"codellama">>
  /\ gen.kind = "EmptyResult"

\* C8: the code of every 200 response is a string that is not empty after
\* trimming, whatever JSON value the provider returned.
C8_CodeNonEmptyString ==
  res.status = 200
    => /\ res.code.t = "string"
       /\ Trim(res.code.s) # <<>>

C8_Witness ==
  /\ res.status = 200
  /\ job.model = <<"wizard-coder">>
  /\ response.data.generated_text = NumV(42)

\* C9: every failure of generateCode after a successful validation is
\* answered 500 with the failure's message and the job's model id (the
\* default id when the caller gave none); a 400 body carries no model.
C9_FailureIs500WithModel ==
  /\ (job.valid /\ gen.state = "thrown")
       => /\ res.sent /\ res.status = 500
          /\ res.error = StrV(<<"Failed to generate code">>)
          /\ res.message = StrV(gen.message)
          /\ res.model = StrV(job.model)
          /\ req.model.t = "undefined" => res.model = StrV(<<"codellama">>)
          /\ req.model.t # "undefined" => res.model = req.model
          /\ res.code = Undefined
  /\ res.status = 400 => res.model = Undefined

C9_Witness ==
  /\ req.model.t = "undefined"
  /\ gen.state = "thrown" /\ gen.kind = "EmptyResult"
  /\ res.status = 500
  /\ res.model = StrV(<<"codellama">>)

\* C10: the body { prompt: "" } is answered 400 with exactly
\* { error: "Invalid request data", message: "Prompt is required" }.
C10_EmptyPromptMessage ==
  (pc = "done" /\ req.kind = "object" /\ req.prompt = StrV(<<>>)
     /\ req.language = Undefined /\ req.model = Undefined)
    => res = [NoRes EXCEPT !.sent = TRUE, !.status = 400,
                           !.error = StrV(<<"Invalid request data">>),
                           !.message = StrV(<<"Prompt is required">>)]

\* The body's prompt is valid and language and model are absent or strings.
WellFormed ==
  /\ req.kind = "object"
  /\ req.prompt.t = "string" /\ req.prompt.s # <<>>
  /\ req.language.t \in {"undefined", "string"}
  /\ req.model.t \in {"undefined", "string"}

\* C11: validation of a body with a valid prompt yields a job whose
\* language is "javascript" and whose model is "codellama" when they are
\* absent, the supplied strings when they are present, and whose prompt is
\* the supplied prompt.
C11_DefaultsApplied ==
  WellFormed
    => /\ job.valid
       /\ job.prompt = req.prompt.s
       /\ job.language = IF req.language.t = "undefined" THEN <<"javascript">>
                         ELSE req.language.s
       /\ job.model = IF req.model.t = "undefined" THEN <<"codellama">>
                      ELSE req.model.s

C11_Witness ==
  /\ WellFormed
  /\ req.language.t = "undefined" /\ job.language = <<"javascript">>
  /\ req.model = StrV(<<>>) /\ job.model = <<>>
  /\ req.prompt = StrV(<<" ">>)

\* C12: a body with a non-empty prompt and a model id outside the registry
\* passes validation, reaches generateCode and is reported as the
\* unsupported-model condition with 500, never as a 400.
C12_UnknownModelReachesDispatcher ==
  (pc = "done" /\ WellFormed /\ req.model.t = "string"
     /\ req.model.s \notin RegistryKeys)
    => /\ job.valid
       /\ invocations = 1
       /\ res.status = 500
       /\ gen.kind = "UnsupportedModel"
       /\ res.message = StrV(<<"Unsupported model: ">> \o req.model.s)

\* The number of HTTP requests that left for a provider.
Issued == IF call.state \in {"none", "rejected"} THEN 0 ELSE call.count

\* C13: a request issues at most one provider call: exactly one when the
\* job is valid and its model is a registry entry, none when validation
\* fails or the model is not in the registry; generateCode is invoked once
\* per validated job and no failure causes a second call.
C13_SingleAttempt ==
  /\ invocations <= 1 /\ call.count <= 1
  /\ job.valid => invocations = 1
  /\ (pc # "idle" /\ ~job.valid) => (invocations = 0 /\ call = NoCall)
  /\ (job.valid /\ job.model \in RegistryKeys) => Issued = 1
  /\ (job.valid /\ job.model \notin RegistryKeys) => Issued = 0

C13_Witness ==
  /\ pc = "done"
  /\ call.state = "failed"
  /\ Issued = 1
  /\ res.status = 500

\* C15: a finished request has exactly one JSON response with status 200,
\* 400 or 500, sent by the handler's last attempt, or, when every send the
\* handler tried threw, the error went through next() to errorHandler,
\* which answers 500.
C15_StructuredOutcome ==
  pc = "done"
    => /\ res.sent /\ res.status \in {200, 400, 500}
       /\ boundary.sends # <<>>
       /\ \A k \in 1..(Len(boundary.sends) - 1) : boundary.sends[k] \in faults
       /\ ~boundary.forwarded
            => /\ boundary.sends[Len(boundary.sends)] \notin faults
               /\ res.status = boundary.sends[Len(boundary.sends)]
       /\ boundary.forwarded
            => /\ boundary.sends[Len(boundary.sends)] = 400
               /\ 400 \in faults
               /\ boundary.error = SendError.message
               /\ res.status = 500
               /\ res.message = Undefined

C15_Witness ==
  /\ pc = "done"
  /\ job.valid /\ gen.state = "returned"
  /\ boundary.sends = <<200, 500, 400>>
  /\ boundary.forwarded
  /\ res.status = 500

\* The original error of a call that failed otherwise than by a timeout or
\* a status outside 2xx.
UnexpectedFailure ==
  \/ call.state = "failed"
  \/ response.read = "jsonFailed"
  \/ JsonRead /\ Transformed.threw

\* C16: a network failure, a 2xx body that is not JSON and a throwing
\* transform propagate as they are: the original error and message, answered
\* 500, never Timeout, ProviderError or EmptyResult.
C16_UnexpectedErrorPropagates ==
  (pc = "done" /\ UnexpectedFailure)
    => /\ gen.state = "thrown" /\ gen.kind = "UnexpectedError"
       /\ call.state = "failed"
            => \E reason \in NetworkReasons : gen = Thrown(NetworkError(reason))
       /\ response.read = "jsonFailed" => gen = Thrown(InvalidJsonError)
       /\ (JsonRead /\ Transformed.threw) => gen = Thrown(NullPropertyError)
       /\ res.sent /\ res.status = 500
       /\ res.message = StrV(gen.message)

C16_Witness ==
  /\ pc = "done"
  /\ call.state = "failed"
  /\ gen.name = "FetchError"
  /\ res.message = StrV(<<"request failed, reason: ", "ECONNRESET">>)

\* C17: once generateCode has returned or thrown after starting the timer,
\* the timer is not armed any more.
C17_TimerNotArmedAfterSettle ==
  (Settled(gen) /\ timer # "none") => timer # "armed"

\* C18: every request that passed validation eventually gets a response.
C18_EventuallyAnswered == job.valid ~> res.sent

\* C19: the handler answers 400 'Invalid request data' exactly when the
\* schema rejected the body.
C19_400OnlyForValidation ==
  pc = "done"
    => /\ (res.status = 400 /\ res.error = StrV(<<"Invalid request data">>))
            => ~job.valid
       /\ (~job.valid /\ 400 \notin faults)
            => (res.status = 400 /\ res.error = StrV(<<"Invalid request data">>))

\* C14: concurrent requests have their own controller and timer; a step of
\* one request (its timer firing, its call failing) leaves every other
\* request as it was, and a call is aborted or reported as timed out only
\* when the timer of its own request has fired.
C14_Step ==
  \A i \in Requests, j \in Requests :
    i # j => (rq'[i] = rq[i] \/ rq'[j] = rq[j])

C14_OwnTimerOnly ==
  \A i \in Requests :
    /\ (rq[i].call.state = "aborted" \/ rq[i].gen.kind = "Timeout")
         => /\ timers[rq[i].timer].state = "fired"
            /\ controllers[rq[i].controller]
    /\ rq[i].controller # 0
         => /\ rq[i].call.signal = rq[i].controller
            /\ timers[rq[i].timer].controller = rq[i].controller
    /\ \A j \in Requests :
         (i # j /\ rq[i].controller # 0 /\ rq[j].controller # 0)
           => (rq[i].controller # rq[j].controller /\ rq[i].timer # rq[j].timer)
    /\ (rq[i].call.state = "pending" /\ timers[rq[i].timer].state = "armed")
         => ~controllers[rq[i].controller]

C14_RequestsIndependent == [][C14_Step]_vars /\ []C14_OwnTimerOnly

\* One request has timed out while the other one, started before that,
\* went on to succeed.
C14_Witness ==
  /\ rq[1].gen.kind = "Timeout"
  /\ rq[2].gen.state = "returned"
  /\ timers[2].state = "cleared"
  /\ rq[2].res.status = 200

\* How often name occurs in the table of route.
RECURSIVE Count(_, _)
Count(names, name) ==
  IF names = <<>> THEN 0
  ELSE (IF Head(names) = name THEN 1 ELSE 0) + Count(Tail(names), name)

\* C20: whatever the interleaving of the calls of init-models and
\* init-plans, no default record is in the store twice, and only a call that
\* saw an empty table has created records.
C20_DefaultsAtMostOnce ==
  /\ \A route \in Routes : \A k \in 1..Len(Defaults(route)) :
       Count(store[route], Defaults(route)[k].name) <= 1
  /\ \A c \in Callers :
       (initc[c].created > 0 \/ initc[c].pc = "awaitInsert")
         => initc[c].observed = 0

\* Two calls of init-plans ran concurrently against an empty table: both
\* saw it empty before either had finished.
C20_Witness ==
  /\ initc[<<"init-plans", 1>>].pc = "done"
  /\ initc[<<"init-plans", 2>>].pc = "done"
  /\ initc[<<"init-plans", 1>>].observed = 0
  /\ initc[<<"init-plans", 2>>].observed = 0
  /\ initc[<<"init-plans", 1>>].status = 500
  /\ store["init-plans"] = <<>>

\* A stored flag changes only to true, and only while a call of that user
\* that is authenticated, carries a planId and found its plan in storage
\* is updating it.
C21_Step ==
  \A u \in UserIds :
    users'[u] # users[u] =>
      /\ users'[u] = TRUE
      /\ \E c \in Subscribers :
           /\ subc[c].pc = "awaitUpdate"
           /\ subc[c].user = u
           /\ Truthy(subc[c].planId)
           /\ ~subc[c].plan.nan
           /\ subc[c].plan.n \in 1..Len(store["init-plans"])

\* A call answered 401, 400 or 404 was rejected for that reason, has not
\* called updateUserSubscription, and its user's flag is as it was unless
\* another call of the same user has updated it.
C21_Rejected ==
  \A c \in Subscribers :
    subc[c].status \in {401, 400, 404} =>
      /\ ~subc[c].called
      /\ subc[c].status = 401 => subc[c].user = NoSession
      /\ subc[c].status = 400 => ~Truthy(subc[c].planId)
      /\ subc[c].status = 404 => subc[c].plan.n \notin 1..Len(store["init-plans"])
      /\ (subc[c].user \in UserIds
            /\ \A d \in Subscribers : ~(subc[d].called /\ subc[d].user = subc[c].user))
           => users[subc[c].user] = subc[c].was

\* C21: POST /api/subscribe sets isSubscribed to true only for an
\* authenticated request with a planId whose plan is in storage; a call
\* answered 401, 400 or 404 does not call updateUserSubscription and leaves
\* the stored user unchanged.
C21_SubscribeOnlyWithPlan == [][C21_Step]_vars /\ []C21_Rejected

\* One call subscribed its user, who was not subscribed, to an existing
\* plan; the other was answered 404 and its user is still not subscribed.
C21_Witness ==
  /\ subc[1].status = 200
  /\ ~subc[1].was
  /\ users[subc[1].user]
  /\ subc[2].status = 404
  /\ subc[2].user \in UserIds
  /\ ~users[subc[2].user]

====
